---------------------------- MODULE Spec2Model ----------------------------
(***************************************************************************)
(* GuideGuard: the logits processor of src/guideguard.py as a state        *)
(* machine.  A processor is constructed once (__init__), then the          *)
(* generation loop hands it, step after step, a tensor of token ids and a  *)
(* tensor of scores and gets a tensor of scores back (__call__).           *)
(*                                                                         *)
(* Text is a sequence of characters, a character a one-element string.     *)
(* The module is kept in ASCII; the characters of the Chinese triggers are *)
(* written in pinyin:                                                      *)
(*   "de" U+7684   "yi" U+4E00   "ge" U+4E2A    "zhe" U+8FD9  "zhong" U+79CD*)
(*   "na" U+90A3   "bei" U+88AB  "zheng" U+6B63 "zai" U+5728  "jing" U+7ECF*)
(*   "yi3" U+5DF2  "kai" U+5F00  "shi" U+59CB   "hen" U+5F88  "fei" U+975E *)
(*   "chang" U+5E38 "te" U+7279  "bie" U+522B   "ji" U+6781   "qi" U+5176  *)
(*   "da" U+6253   "chi" U+5403  "kan" U+770B   "shu" U+4E66  "ren" U+4EBA *)
(*   "hao" U+597D  "mei" U+7F8E  "da4" U+5927                              *)
(* and "_" stands for the sentencepiece marker U+2581.                     *)
(***************************************************************************)
EXTENDS Integers, Sequences, FiniteSets, TLC

VARIABLES
    pc,                    \* "new", "failed", "idle", "ready", "returned", "raised"
    error,                 \* the exception a constructor or a call ended with, or "none"
    _SPACY_MODELS,         \* the module-level cache: languages whose model is loaded
    tokenizer,             \* self.tokenizer: the tokenizer handed to __init__
    nlp,                   \* self.nlp: the language of the loaded spaCy model
    confidence_threshold,  \* self.confidence_threshold, in hundredths
    enable_eraser,         \* self.enable_eraser
    syntactic_patterns,    \* self.syntactic_patterns
    input_ids,             \* the generator's token tensor of this step
    scores,                \* the generator's score tensor of this step
    next_pos,              \* __call__'s local next_pos
    topk_indices,          \* __call__'s local topk_indices[0]
    allowed_by_candidates, \* __call__'s local allowed_by_candidates
    pos_count,             \* __call__'s local pos_count.get(next_pos, 0)
    result,                \* the tensor __call__ returned
    result_is_scores       \* whether the returned tensor is the object `scores`

vars == <<pc, error, _SPACY_MODELS, tokenizer, nlp, confidence_threshold,
          enable_eraser, syntactic_patterns, input_ids, scores, next_pos,
          topk_indices, allowed_by_candidates, pos_count, result,
          result_is_scores>>

processor == <<tokenizer, nlp, confidence_threshold, enable_eraser,
               syntactic_patterns>>

locals == <<next_pos, topk_indices, allowed_by_candidates, pos_count, result,
            result_is_scores>>

-----------------------------------------------------------------------------
(* Bounds of the model.                                                    *)

VocabSize == 21     \* entries of a score row (the model's vocabulary)
MaxSeqLen == 4      \* tokens of the longest sequence the generator supplies
MaxBatch == 2       \* sequences of the largest batch
TokenizerSize == 20 \* ids 0 .. TokenizerSize-1 have a token in the tokenizer

(* Program constants.                                                      *)

TopK == 20          \* torch.topk(scores, k=20, dim=-1)
Inspect == 10       \* topk_indices[0][:10]
MinMatch == 3       \* pos_count.get(next_pos, 0) >= 3
Window == 3         \* input_ids[-3:]
NegInf == -1000     \* -float("inf"): below every finite score of the model

None == "None"

-----------------------------------------------------------------------------
(* Python's str and list operations, as far as the code uses them.         *)

Max(a, b) == IF a >= b THEN a ELSE b

\* s[-n:]
LastN(s, n) == SubSeq(s, Max(1, Len(s) - n + 1), Len(s))

\* str.endswith
EndsWith(text, suffix) ==
    /\ Len(suffix) <= Len(text)
    /\ SubSeq(text, Len(text) - Len(suffix) + 1, Len(text)) = suffix

\* str.isspace of one character
Whitespace == {" ", "\n", "\t"}

\* str.strip
RECURSIVE LStrip(_)
LStrip(s) ==
    IF s # <<>> /\ Head(s) \in Whitespace THEN LStrip(Tail(s)) ELSE s

RECURSIVE RStrip(_)
RStrip(s) ==
    IF s # <<>> /\ s[Len(s)] \in Whitespace
    THEN RStrip(SubSeq(s, 1, Len(s) - 1))
    ELSE s

Strip(s) == RStrip(LStrip(s))

\* str.lower of one character: the upper-case letters of the model's tokens
LowerChar(c) ==
    CASE c = "T" -> "t"
      [] c = "H" -> "h"
      [] c = "I" -> "i"
      [] c = "S" -> "s"
      [] c = "A" -> "a"
      [] OTHER -> c

\* str.lower
Lower(s) == [i \in 1..Len(s) |-> LowerChar(s[i])]

\* str.replace(old, new): left to right, occurrences not overlapping
RECURSIVE Replace(_, _, _)
Replace(s, old, new) ==
    IF s = <<>> THEN <<>>
    ELSE IF Len(old) <= Len(s) /\ SubSeq(s, 1, Len(old)) = old
         THEN new \o Replace(SubSeq(s, Len(old) + 1, Len(s)), old, new)
         ELSE <<Head(s)>> \o Replace(Tail(s), old, new)

\* "".join
RECURSIVE Concat(_)
Concat(ss) == IF ss = <<>> THEN <<>> ELSE Head(ss) \o Concat(Tail(ss))

-----------------------------------------------------------------------------
(* The tokenizer handed to __init__: an external collaborator, modelled as *)
(* a fixed sentencepiece-style vocabulary.  A score row may be wider than  *)
(* the tokenizer's vocabulary (padded embeddings): such an id has no token *)
(* and convert_ids_to_tokens gives None for it.                            *)

HasToken(token_id) == token_id \in 0..(TokenizerSize - 1)

TokenOf(token_id) ==
    CASE token_id = 0 -> <<"bei">>
      [] token_id = 1 -> <<"de">>
      [] token_id = 2 -> <<"hen">>
      [] token_id = 3 -> <<"yi">>
      [] token_id = 4 -> <<"ge">>
      [] token_id = 5 -> <<"da">>
      [] token_id = 6 -> <<"chi">>
      [] token_id = 7 -> <<"kan">>
      [] token_id = 8 -> <<"shu">>
      [] token_id = 9 -> <<"ren">>
      [] token_id = 10 -> <<"hao">>
      [] token_id = 11 -> <<"mei">>
      [] token_id = 12 -> <<"_", "T", "h", "i", "s">>
      [] token_id = 13 -> <<"_", "r", "u", "n">>
      [] token_id = 14 -> <<"#", "#", "s">>
      [] token_id = 15 -> <<"_">>
      [] token_id = 16 -> <<"_", "c", "a", "t">>
      [] token_id = 17 -> <<"da4">>
      [] token_id = 18 -> <<"zwsp">>
      [] token_id = 19 -> <<"_", "a">>
      [] OTHER -> <<"_", "x">>

\* tokenizer.convert_ids_to_tokens of a flat list of ids
convert_ids_to_tokens(ids) == [i \in 1..Len(ids) |-> TokenOf(ids[i])]

\* tokenizer.convert_tokens_to_string: the pieces joined, the marker a space
convert_tokens_to_string(tokens) == Replace(Concat(tokens), <<"_">>, <<" ">>)

(* The spaCy pipeline self.nlp, an external tagger: a deterministic stub.  *)
(* Its answer for a text is the tag of the first token of the doc, "EMPTY" *)
(* for a doc without tokens, or "RAISE" when the call raises.              *)
Tagger(text) ==
    CASE text \in {<<"da">>, <<"chi">>, <<"kan">>, <<"r", "u", "n">>} -> "VERB"
      [] text \in {<<"ge">>, <<"shu">>, <<"ren">>, <<"c", "a", "t">>} -> "NOUN"
      [] text \in {<<"hao">>, <<"mei">>, <<"da4">>} -> "ADJ"
      [] text \in {<<"bei">>, <<"a">>} -> "ADP"
      [] text = <<"s">> -> "RAISE"
      [] text = <<"zwsp">> -> "EMPTY"
      [] OTHER -> "X"

-----------------------------------------------------------------------------
(* __init__: the rule tables, in the order the dict literals give.         *)

Patterns ==
    [zh |-> << [category |-> "NP",
                rules |-> << <<(<<"de">>), "NOUN">>,
                             <<(<<"yi", "ge">>), "NOUN">>,
                             <<(<<"zhe", "zhong">>), "NOUN">>,
                             <<(<<"na", "ge">>), "NOUN">> >>],
               [category |-> "VP",
                rules |-> << <<(<<"bei">>), "VERB">>,
                             <<(<<"zheng", "zai">>), "VERB">>,
                             <<(<<"yi3", "jing">>), "VERB">>,
                             <<(<<"kai", "shi">>), "VERB">> >>],
               [category |-> "AP",
                rules |-> << <<(<<"hen">>), "ADJ">>,
                             <<(<<"fei", "chang">>), "ADJ">>,
                             <<(<<"te", "bie">>), "ADJ">>,
                             <<(<<"ji", "qi">>), "ADJ">> >>] >>,
     en |-> << [category |-> "NP",
                rules |-> << <<(<<"t", "h", "e">>), "NOUN">>,
                             <<(<<"a">>), "NOUN">>,
                             <<(<<"a", "n">>), "NOUN">>,
                             <<(<<"t", "h", "i", "s">>), "NOUN">> >>],
               [category |-> "VP",
                rules |-> << <<(<<"w", "i", "l", "l">>), "VERB">>,
                             <<(<<"c", "a", "n">>), "VERB">>,
                             <<(<<"i", "s">>), "VERB">>,
                             <<(<<"h", "a", "s">>), "VERB">> >>],
               [category |-> "PP",
                rules |-> << <<(<<"i", "n">>), "NOUN">>,
                             <<(<<"o", "n">>), "NOUN">>,
                             <<(<<"a", "t">>), "NOUN">>,
                             <<(<<"w", "i", "t", "h">>), "NOUN">> >>] >>]

Languages == {"zh", "en"}

-----------------------------------------------------------------------------
(* Tensors.  A token tensor is [rank, data], data a sequence of rows of    *)
(* ids: of rank 2 (what a generation loop passes: batch x sequence) the    *)
(* rows are its first dimension, of rank 1 it is the one row data[1].  A   *)
(* score tensor is a sequence of rows (batch x vocabulary), a row a        *)
(* function from the ids 0 .. W-1 to a score: an integer, or NegInf.       *)

Rows(t) == 1..Len(t)

Width(t) == Cardinality(DOMAIN t[1])

Ids(t) == DOMAIN t[1]

Entries(t) == {t[r][i] : r \in Rows(t), i \in Ids(t)}

\* torch.max of a whole tensor
TorchMax(t) == CHOOSE m \in Entries(t) : \A x \in Entries(t) : x <= m

\* torch.topk(row, k): the ids of the k largest entries, largest first.  Which
\* of two equal entries comes first is torch's choice: tb is that choice.
Before(row, i, j, tb) ==
    \/ row[i] > row[j]
    \/ /\ row[i] = row[j]
       /\ IF tb = "low" THEN i < j ELSE i > j

TopKIndices(row, k, tb) ==
    LET ids == [n \in 1..Cardinality(DOMAIN row) |-> n - 1]
    IN  SubSeq(SortSeq(ids, LAMBDA i, j : Before(row, i, j, tb)), 1, k)

TieBreaks == {"low", "high"}

-----------------------------------------------------------------------------
(* _predict_next_pos                                                       *)

\* input_ids[-3:].tolist(): the slice is along the first dimension, so it is
\* the last ids of a rank-1 tensor and the last rows of a rank-2 tensor
WindowOf(ids) ==
    IF ids.rank = 1 THEN <<LastN(ids.data[1], Window)>> ELSE LastN(ids.data, Window)

\* convert_ids_to_tokens is specified for a flat list of ids.  Handed the
\* rows of a rank-2 tensor, a tokenizer either raises (int() of a list: a
\* TypeError) or reads the ids of the rows one after the other.
PredictRaises(ids) == ids.rank = 2 /\ tokenizer.nested = "raise"

RenderedText(ids) ==
    LET tokens == convert_ids_to_tokens(Concat(WindowOf(ids)))
    IN  Lower(Strip(convert_tokens_to_string(tokens)))

\* patterns = self.syntactic_patterns.get(lang, {}), its rules in the order
\* the two loops visit them
RulesInOrder(lang) ==
    IF lang \in DOMAIN syntactic_patterns
    THEN Concat([g \in 1..Len(syntactic_patterns[lang]) |->
                    syntactic_patterns[lang][g].rules])
    ELSE <<>>

FirstMatch(text, rules) ==
    LET hits == {n \in 1..Len(rules) : EndsWith(text, rules[n][1])}
    IN  IF hits = {} THEN None
        ELSE rules[CHOOSE n \in hits : \A m \in hits : n <= m][2]

_predict_next_pos(ids) ==
    LET text == RenderedText(ids)
    IN  IF text = <<>> THEN None ELSE FirstMatch(text, RulesInOrder(nlp))

-----------------------------------------------------------------------------
(* __call__                                                                *)

\* clean_token = token_str.replace(U+2581, "").replace("##", "")
CleanToken(token_str) == Replace(Replace(token_str, <<"_">>, <<>>), <<"#", "#">>, <<>>)

\* One turn of the loop over the inspected candidates: whether token_id is
\* added to allowed_by_candidates and counted.  A candidate without a token
\* (None is no str), a candidate that is blank once cleaned, and a candidate
\* on which the tagger raises or gives an empty doc are passed over.
Matches(token_id, expected) ==
    /\ HasToken(token_id)
    /\ Strip(CleanToken(TokenOf(token_id))) # <<>>
    /\ Tagger(CleanToken(TokenOf(token_id))) \notin {"RAISE", "EMPTY"}
    /\ Tagger(CleanToken(TokenOf(token_id))) = expected

\* mask[:, allowed_list] = scores[:, allowed_list], on a mask full of -inf
MaskOf(sc, allowed) ==
    [r \in Rows(sc) |-> [i \in Ids(sc) |-> IF i \in allowed THEN sc[r][i] ELSE NegInf]]

\* Variants of the eraser's comparison: without the factor 0.1, and applied
\* to a positive maximum only.
EraserFiresUnscaled(constrained_max, original_max) ==
    constrained_max < original_max

EraserFiresPositiveOnly(constrained_max, original_max) ==
    /\ original_max > 0
    /\ \/ constrained_max = NegInf
       \/ 10 * constrained_max < original_max

\* constrained_max < original_max * 0.1, in IEEE arithmetic with -inf.  The
\* finite scores of the model are integers at which the float product decides
\* the comparison as the exact one does.
EraserFires(constrained_max, original_max) ==
    IF original_max = NegInf THEN FALSE
    ELSE IF constrained_max = NegInf THEN TRUE
    ELSE 10 * constrained_max < original_max

\* A variant of the threshold: two matches are enough.
ActivatedAtTwo(count) == count >= MinMatch - 1

\* pos_count.get(next_pos, 0) >= 3
Activated(count) == count >= MinMatch

Returned(value, same, np, topk, allowed, count) ==
    [kind |-> "returned", error |-> "none", value |-> value, same |-> same,
     next_pos |-> np, topk |-> topk, allowed |-> allowed, count |-> count]

Raised(exc, np) ==
    [kind |-> "raised", error |-> exc, value |-> <<>>, same |-> FALSE,
     next_pos |-> np, topk |-> <<>>, allowed |-> {}, count |-> 0]

\* The part of __call__ after the prediction (lines 95-129).
Constrain(sc, np, tb) ==
    IF Width(sc) < TopK THEN Raised("RuntimeError", np)
    ELSE
    LET topk == TopKIndices(sc[1], TopK, tb)
        inspected == SubSeq(topk, 1, Inspect)
        hits == {n \in 1..Len(inspected) : Matches(inspected[n], np)}
        allowed == {inspected[n] : n \in hits}
        count == Cardinality(hits)
        mask == MaskOf(sc, allowed)
    IN  IF Activated(count) /\ allowed # {}
        THEN IF enable_eraser /\ EraserFires(TorchMax(mask), TorchMax(sc))
             THEN Returned(sc, TRUE, np, topk, allowed, count)
             ELSE Returned(mask, FALSE, np, topk, allowed, count)
        ELSE Returned(sc, TRUE, np, topk, allowed, count)

\* A variant of __call__ without the early return of line 93.
__call__NoEarlyReturn(ids, sc, tb) ==
    IF PredictRaises(ids) THEN Raised("TypeError", None)
    ELSE Constrain(sc, _predict_next_pos(ids), tb)

\* __call__(input_ids, scores), tb being torch.topk's order of equal scores
__call__(ids, sc, tb) ==
    IF PredictRaises(ids) THEN Raised("TypeError", None)
    ELSE LET np == _predict_next_pos(ids)
         IN  IF np = None
             THEN Returned(sc, TRUE, None, <<>>, {}, 0)
             ELSE Constrain(sc, np, tb)

\* A variant of __call__ that masks the caller's tensor in place.
ScoresMaskedInPlace(sc, out) == IF out.kind = "returned" THEN out.value ELSE sc

\* No statement of __call__ or _predict_next_pos assigns to an entry of
\* scores (the mask is a new tensor), to input_ids or to an attribute of self.
ScoresAfterCall(sc, out) == sc

-----------------------------------------------------------------------------
(* What the generator and the caller supply.                               *)

Tokenizers == [nested : {"raise", "flatten"}]

LanguageArgs == {"zh", "en", "fr"}

\* confidence_threshold arguments, in hundredths: 0.0, 0.85 (the default), 1.5
ThresholdArgs == {0, 85, 150}

\* The entry at place p (0 is the largest) of a score row of a given shape.
Shape(name, p) ==
    CASE name = "desc" -> 60 - p
      [] name = "peak" -> IF p = 0 THEN 100 ELSE 11 - p
      [] name = "neg" -> (0 - 1) - p
      [] name = "zero" -> 0 - p
      [] name = "even" -> IF p % 2 = 0 THEN 40 - p ELSE p - 40
      [] name = "sparse" -> IF p = 0 THEN 5 ELSE NegInf
      [] OTHER -> NegInf

Shapes == {"desc", "peak", "neg", "zero", "even", "sparse", "blank"}

\* A score row of width w whose largest entry is at id rot.
ScoreRow(name, rot, w) == [i \in 0..(w - 1) |-> Shape(name, (i - rot) % w)]

Tensor1(ids) == [rank |-> 1, data |-> <<ids>>]

Tensor2(rows) == [rank |-> 2, data |-> rows]

SeqsUpTo(S, n) == UNION {[1..k -> S] : k \in 0..n}

\* Prompts over the tokens U+4E00, U+4E2A and the bare marker, as a rank-1
\* tensor; over U+88AB and the bare marker as a batch of one sequence.
TextIds == {3, 4, 15}

TextInputs ==
    {[ids |-> Tensor1(t), sc |-> <<ScoreRow("desc", 5, VocabSize)>>] :
        t \in SeqsUpTo(TextIds, MaxSeqLen)}
    \cup
    {[ids |-> Tensor2(<<t>>), sc |-> <<ScoreRow("desc", 5, VocabSize)>>] :
        t \in UNION {[1..k -> {0, 15}] : k \in 1..MaxSeqLen}}

\* One sequence ending in a trigger (U+88AB, U+7684, U+5F88) and the score
\* rows of every shape, the largest entry at every id; the English prompts
\* "This" and "This a"; and rows narrower than, as wide as and wider than k.
TriggerIds == {<<0>>, <<1>>, <<2>>}

ScoreInputs ==
    {[ids |-> Tensor1(t), sc |-> <<ScoreRow(name, rot, VocabSize)>>] :
        t \in TriggerIds, name \in Shapes, rot \in 0..(VocabSize - 1)}
    \cup
    {[ids |-> Tensor1(t), sc |-> <<ScoreRow("desc", rot, VocabSize)>>] :
        t \in {<<12>>, <<12, 19>>}, rot \in 0..(VocabSize - 1)}
    \cup
    {[ids |-> Tensor2(<<t>>), sc |-> <<ScoreRow(name, 5, w)>>] :
        t \in {<<0>>, <<15>>}, name \in {"desc", "peak"}, w \in {TopK - 1, TopK, VocabSize}}
    \cup
    {[ids |-> Tensor1(t), sc |-> <<ScoreRow("desc", 5, TopK - 1)>>] :
        t \in {<<0>>, <<15>>}}

\* Batches of two or more sequences.
BatchSeqs == {<<0>>, <<1>>}

BatchRows ==
    {ScoreRow("desc", 5, VocabSize), ScoreRow("peak", 3, VocabSize),
     ScoreRow("sparse", 0, VocabSize)}

BatchInputs ==
    UNION {{[ids |-> Tensor2(t), sc |-> s] :
                t \in [1..b -> BatchSeqs], s \in [1..b -> BatchRows]} :
           b \in 2..MaxBatch}

Inputs == TextInputs \cup ScoreInputs \cup BatchInputs

-----------------------------------------------------------------------------
(* The state machine.                                                      *)

Init ==
    /\ pc = "new"
    /\ error = "none"
    /\ _SPACY_MODELS = {}
    /\ tokenizer = None
    /\ nlp = None
    /\ confidence_threshold = None
    /\ enable_eraser = None
    /\ syntactic_patterns = None
    /\ input_ids = None
    /\ scores = None
    /\ next_pos = None
    /\ topk_indices = <<>>
    /\ allowed_by_candidates = {}
    /\ pos_count = 0
    /\ result = None
    /\ result_is_scores = FALSE

\* _get_spacy_model(lang): "ok", or the exception it ends with.  `found` is
\* whether spacy.load finds the model of a supported language.
_get_spacy_model(lang, found) ==
    IF lang \in _SPACY_MODELS THEN "ok"
    ELSE IF lang \in Languages
         THEN IF found THEN "ok" ELSE "RuntimeError"
         ELSE "ValueError"

\* GuideGuardLogitsProcessor(tokenizer, language, confidence_threshold, enable_eraser)
__init__(tok, language, threshold, eraser, found) ==
    /\ pc = "new"
    /\ tokenizer' = tok
    /\ IF _get_spacy_model(language, found) = "ok"
       THEN /\ _SPACY_MODELS' = _SPACY_MODELS \cup {language}
            /\ nlp' = language
            /\ confidence_threshold' = threshold
            /\ enable_eraser' = eraser
            /\ syntactic_patterns' = Patterns
            /\ pc' = "idle"
            /\ error' = "none"
       ELSE /\ pc' = "failed"
            /\ error' = _get_spacy_model(language, found)
            /\ UNCHANGED <<_SPACY_MODELS, nlp, confidence_threshold,
                           enable_eraser, syntactic_patterns>>
    /\ UNCHANGED <<input_ids, scores, locals>>

\* The generation loop reaches the next step: a token tensor and a score tensor.
Supply(inp) ==
    /\ pc = "idle"
    /\ input_ids' = inp.ids
    /\ scores' = inp.sc
    /\ pc' = "ready"
    /\ UNCHANGED <<error, _SPACY_MODELS, processor, locals>>

\* processor(input_ids, scores)
Call(tb) ==
    /\ pc = "ready"
    /\ \E out \in {__call__(input_ids, scores, tb)} :
           /\ pc' = out.kind
           /\ error' = out.error
           /\ result' = out.value
           /\ result_is_scores' = out.same
           /\ next_pos' = out.next_pos
           /\ topk_indices' = out.topk
           /\ allowed_by_candidates' = out.allowed
           /\ pos_count' = out.count
           /\ scores' = ScoresAfterCall(scores, out)
    /\ UNCHANGED <<_SPACY_MODELS, processor, input_ids>>

\* The generation loop takes the result (or the exception) and drops the
\* tensors of the step.
Release ==
    /\ pc \in {"returned", "raised"}
    /\ pc' = "idle"
    /\ error' = "none"
    /\ input_ids' = None
    /\ scores' = None
    /\ next_pos' = None
    /\ topk_indices' = <<>>
    /\ allowed_by_candidates' = {}
    /\ pos_count' = 0
    /\ result' = None
    /\ result_is_scores' = FALSE
    /\ UNCHANGED <<_SPACY_MODELS, processor>>

Next ==
    \/ \E tok \in Tokenizers, language \in LanguageArgs,
          threshold \in ThresholdArgs, eraser \in BOOLEAN, found \in BOOLEAN :
            __init__(tok, language, threshold, eraser, found)
    \/ \E inp \in Inputs : Supply(inp)
    \/ \E tb \in TieBreaks : Call(tb)
    \/ Release

Spec == Init /\ [][Next]_vars

-----------------------------------------------------------------------------
(* The properties.  What follows states them in the specification's own    *)
(* terms, apart from the operators of __call__.                            *)

Done == pc \in {"returned", "raised"}

\* The category of a candidate: "unknown" for a candidate without surface
\* text and for one the tagger fails on.
Classification(token_id) ==
    LET text == IF HasToken(token_id) THEN CleanToken(TokenOf(token_id)) ELSE <<>>
    IN  IF Strip(text) = <<>> \/ Tagger(text) \in {"RAISE", "EMPTY"}
        THEN "unknown"
        ELSE Tagger(text)

\* The candidates among the n top-scoring ones that classify as category c.
MatchingTop(n, c) ==
    {topk_indices[k] : k \in {j \in 1..n : Classification(topk_indices[j]) = c}}

\* c < 10% of m, over the reals extended by -inf
TenPercentBelow(c, m) ==
    /\ m # NegInf
    /\ c = NegInf \/ 10 * c < m

\* The vector that keeps the scores at the positions S and is -inf elsewhere.
KeepOnly(t, S) ==
    [r \in 1..Len(t) |-> [i \in DOMAIN t[r] |-> IF i \in S THEN t[r][i] ELSE NegInf]]

LargestEntry(t) ==
    CHOOSE m \in {t[r][i] : r \in 1..Len(t), i \in DOMAIN t[1]} :
        \A r \in 1..Len(t), i \in DOMAIN t[1] : t[r][i] <= m

\* The eraser does not step in on the mask of the positions S.
EraserQuiet(S) ==
    ~(enable_eraser /\ TenPercentBelow(LargestEntry(KeepOnly(scores, S)), LargestEntry(scores)))

\* C1: when the category predictor returns no prediction for the token
\* sequence, the call returns, and what it returns is the score tensor it was
\* given, every entry the same.
C1_PassThrough ==
    (Done /\ ~PredictRaises(input_ids) /\ _predict_next_pos(input_ids) = None)
        => (pc = "returned" /\ result_is_scores /\ result = scores)

\* A call on a text that is not empty and ends in no trigger passed the scores on.
C1_Witness ==
    /\ pc = "returned"
    /\ RenderedText(input_ids) # <<>>
    /\ next_pos = None
    /\ result = scores

\* C2: a returned vector that differs from the input leaves every sequence at
\* least one entry that is not the sentinel.
C2_NeverEmpty ==
    (pc = "returned" /\ result # scores)
        => \A r \in 1..Len(result) : \E i \in DOMAIN result[r] : result[r][i] # NegInf

\* C3 as stated: with a category predicted and the eraser not stepping in,
\* exactly 3 matches among the 20 top-scoring candidates give the mask of those
\* 3 positions, and exactly 2 give the scores unchanged.
C3_AmongTopTwenty ==
    (pc = "returned" /\ next_pos # None)
        => LET M == MatchingTop(TopK, next_pos)
           IN  /\ (Cardinality(M) = 3 /\ EraserQuiet(M)) => result = KeepOnly(scores, M)
               /\ Cardinality(M) = 2 => result = scores

\* C3 as amended: the same of the 10 highest of those 20 candidates, the ones
\* the loop inspects.
C3_AmongInspected ==
    (pc = "returned" /\ next_pos # None)
        => LET M == MatchingTop(Inspect, next_pos)
           IN  /\ (Cardinality(M) = 3 /\ EraserQuiet(M)) => result = KeepOnly(scores, M)
               /\ Cardinality(M) = 2 => result = scores

\* Exactly 3 of the inspected candidates matched and the mask was returned.
C3_Witness ==
    /\ pc = "returned"
    /\ next_pos # None
    /\ Cardinality(MatchingTop(Inspect, next_pos)) = 3
    /\ result = KeepOnly(scores, MatchingTop(Inspect, next_pos))
    /\ result # scores

\* C4: once the gate is activated, an enabled eraser returns the original
\* scores when the largest masked score is below 10% of the largest original
\* score and the mask otherwise; a disabled eraser always returns the mask.
C4_Eraser ==
    (pc = "returned" /\ next_pos # None /\ pos_count >= 3)
        => LET mask == KeepOnly(scores, allowed_by_candidates)
           IN  IF enable_eraser /\ TenPercentBelow(LargestEntry(mask), LargestEntry(scores))
               THEN result = scores
               ELSE result = mask

\* The gate was activated, the largest allowed score is positive and below
\* 10% of the largest score, and the eraser gave the original scores back.
C4_Witness ==
    /\ pc = "returned"
    /\ enable_eraser
    /\ pos_count >= 3
    /\ LargestEntry(KeepOnly(scores, allowed_by_candidates)) > 0
    /\ result = scores

\* C5: in a batch, the result row of each sequence is what a call on that
\* sequence alone returns.
C5_BatchIsolation ==
    (pc = "returned" /\ Len(scores) >= 2)
        => \A r \in 1..Len(scores) :
               \E tb \in TieBreaks :
                   LET alone == __call__(Tensor2(<<input_ids.data[r]>>), <<scores[r]>>, tb)
                   IN  alone.kind = "returned" /\ alone.value = <<result[r]>>

\* C6: a call never raises; it ends with the scores unchanged or masked to the
\* allowed subset, and no candidate whose classification failed is allowed.
C6_NoFailure ==
    Done
        => /\ pc = "returned"
           /\ result = scores \/ result = KeepOnly(scores, allowed_by_candidates)
           /\ \A t \in allowed_by_candidates : Classification(t) # "unknown"

\* C7: a call changes neither the processor's configuration and rule tables
\* nor the token tensor nor any entry of the score tensor it was given, and
\* nothing of the processor changes between the calls either.
C7_Stateless ==
    [][/\ pc = "ready" => (input_ids' = input_ids /\ scores' = scores)
       /\ pc # "new" => (processor' = processor /\ _SPACY_MODELS' = _SPACY_MODELS)]_vars

\* A call returned a mask, a tensor of its own, and the scores are still unmasked.
C7_Witness ==
    /\ pc = "returned"
    /\ ~result_is_scores
    /\ result # scores
    /\ \A i \in DOMAIN scores[1] : scores[1][i] # NegInf

\* C8: a constructed processor has 0 < confidence_threshold <= 1.
C8_ThresholdValidated ==
    pc \notin {"new", "failed"}
        => (0 < confidence_threshold /\ confidence_threshold <= 100)

\* C9: the prediction for the sequence being extended is the category of the
\* first rule, in table order, whose trigger ends the text of the last 3 tokens
\* of that sequence, and no prediction when there is none.
C9_TriggerPrediction ==
    Done
        => /\ error # "TypeError"
           /\ next_pos = LET tokens == convert_ids_to_tokens(LastN(input_ids.data[1], 3))
                             text == Lower(Strip(convert_tokens_to_string(tokens)))
                         IN  IF text = <<>> THEN None
                             ELSE FirstMatch(text, RulesInOrder(nlp))

\* C10: with the eraser enabled, a finite negative largest score means the
\* scores come back unchanged, so a vector that differs from the scores is
\* returned only when the largest score is at least 0.
C10_EraserSign ==
    (pc = "returned" /\ enable_eraser)
        => /\ (LargestEntry(scores) # NegInf /\ LargestEntry(scores) < 0) => result = scores
           /\ result # scores => LargestEntry(scores) >= 0

\* The gate was activated on a negative score row whose highest-scoring token
\* is allowed, and the scores came back.
C10_Witness ==
    /\ pc = "returned"
    /\ enable_eraser
    /\ LargestEntry(scores) < 0
    /\ LargestEntry(scores) # NegInf
    /\ pos_count >= 3
    /\ topk_indices[1] \in allowed_by_candidates
    /\ result = scores

=============================================================================
